---- MODULE Spec2Model ----
(***************************************************************************)
(* Model of the feature dependency engine of FeatureStore-lite.           *)
(*                                                                         *)
(*   duckdb_featurestore/feature.py  FeatureMeta, Feature (class-level    *)
(*                                   dependency graph, cycle check, roots) *)
(*   fs_lite/feature.py              Feature dataclass, column()           *)
(*   fs_lite/pandas/pandasfeaturestore.py  compute_feature                 *)
(*                                                                         *)
(* Three specifications share the module:                                  *)
(*   Spec      the graph queries on a set of declared feature classes      *)
(*   SpecMeta  class declaration through the metaclass FeatureMeta         *)
(*   SpecExec  the pandas executor's compute_feature                       *)
(***************************************************************************)
EXTENDS Naturals, Sequences, FiniteSets

VARIABLES
    dependencies,   \* Spec: class -> its `dependencies` attribute
    call,           \* Spec: the last graph query and what it returned or raised
    first,          \* Spec: history, the first graph query of the run
    again,          \* Spec: history, the last query was not the run's first
    registry,       \* SpecMeta: class name -> the declared class, or undeclared
    declOutcome,    \* SpecMeta: what the last class statement did
    feature,        \* SpecExec: the feature handed to compute_feature
    input,          \* SpecExec: the columns of the input table
    output          \* SpecExec: what compute_feature returned or raised

graphVars == <<dependencies, call, first, again>>
metaVars  == <<registry, declOutcome>>
execVars  == <<feature, input, output>>
vars      == <<dependencies, call, first, again, registry, declOutcome, feature, input, output>>

-----------------------------------------------------------------------------
(* Bounds *)

\* longest `dependencies` list a class declares
MaxDeps == 2

-----------------------------------------------------------------------------
(* The declared objects.  A feature is a class object, identified by the   *)
(* object itself (module-qualified here); mod1.B and mod2.B are two        *)
(* different classes that were both written `class B(Feature)`.            *)

Classes == {"mod1.A", "mod1.B", "mod2.B"}

\* bare column references: plain strings in a `dependencies` list
Columns == {"x"}

Nodes == Classes \cup Columns

\* a fixed order, used only to enumerate the declared lists once each
NodeOrder == <<"mod1.A", "mod1.B", "mod2.B", "x">>

Rank(n) == CHOOSE i \in 1..Len(NodeOrder) : NodeOrder[i] = n

\* Feature.name: cls.__name__, the class statement's identifier
name(cls) ==
    CASE cls = "mod1.A" -> "A"
      [] cls = "mod1.B" -> "B"
      [] cls = "mod2.B" -> "B"

\* type(obj): a class object's type is its metaclass, a column's is str
TypeOf(obj) == IF obj \in Classes THEN "FeatureMeta" ELSE "str"

\* the classes for which issubclass(t, Feature) is true
SubclassesOfFeature == Classes \cup {"Feature"}

\* isinstance(dep, Feature): whether type(dep) is a subclass of Feature
isinstance_Feature(dep) == TypeOf(dep) \in SubclassesOfFeature

\* the values of a class's `dependencies` attribute: None (the default of
\* Feature) or a list of nodes
NoneDeps == [none |-> TRUE, list |-> <<>>]

DepLists ==
    { s \in UNION { [1..k -> Nodes] : k \in 0..MaxDeps } :
        \A i \in 1..Len(s) : \A j \in 1..Len(s) : i < j => Rank(s[i]) < Rank(s[j]) }

DepValues == {NoneDeps} \cup { [none |-> FALSE, list |-> s] : s \in DepLists }

-----------------------------------------------------------------------------
(* networkx.DiGraph as the code uses it: nodes in insertion order, keyed   *)
(* by the node object's hash and equality; a set of directed edges.        *)

\* hash/equality of a node object: a class object is equal only to itself,
\* a string to every equal string
NodeKey_byName(n) == IF n \in Classes THEN name(n) ELSE n

NodeKey(n) == n

InSeq(s, x) == \E i \in 1..Len(s) : s[i] = x

\* nx.DiGraph(), with no exception pending
NewDiGraph_shared == [nodes |-> call.nodes, edges |-> call.edges, raised |-> ""]

NewDiGraph == [nodes |-> <<>>, edges |-> {}, raised |-> ""]

add_node(graph, n) ==
    IF InSeq(graph.nodes, NodeKey(n)) THEN graph
    ELSE [graph EXCEPT !.nodes = Append(@, NodeKey(n))]

add_edge(graph, u, v) ==
    LET g == add_node(add_node(graph, u), v)
    IN  [g EXCEPT !.edges = @ \cup {<<NodeKey(u), NodeKey(v)>>}]

\* graph.has_predecessor(n, u): the edge u -> n is in the graph
has_predecessor(graph, n, u) == <<NodeKey(u), NodeKey(n)>> \in graph.edges

\* graph.predecessors(node)
predecessors(graph, node) == { e[1] : e \in { d \in graph.edges : d[2] = node } }

\* nx.is_directed_acyclic_graph: a topological sort consumes every node
\* (nodes of in-degree zero are removed until none is left to remove)
RECURSIVE TopoConsumes(_, _)
TopoConsumes(left, edges) ==
    LET live == { e \in edges : e[1] \in left /\ e[2] \in left }
        zero == { n \in left : \A e \in live : e[2] # n }
    IN  IF left = {} THEN TRUE
        ELSE IF zero = {} THEN FALSE
        ELSE TopoConsumes(left \ zero, edges)

is_directed_acyclic_graph(graph) ==
    TopoConsumes({ graph.nodes[i] : i \in 1..Len(graph.nodes) }, graph.edges)

-----------------------------------------------------------------------------
(* Feature: the graph queries (duckdb_featurestore/feature.py)             *)

\* Feature._add_dependencies_to_graph, from the i-th entry of the loop on.
\* Iterating None raises TypeError; an exception ends every enclosing loop.
RECURSIVE add_dependencies_to_graph(_, _, _)
add_dependencies_to_graph(cls, graph, i) ==
    IF graph.raised # "" THEN graph
    ELSE IF dependencies[cls].none THEN [graph EXCEPT !.raised = "TypeError"]
    ELSE IF i > Len(dependencies[cls].list) THEN graph
    ELSE LET dep == dependencies[cls].list[i]
             g1  == add_edge(add_node(graph, dep), cls, dep)
             g2  == IF isinstance_Feature(dep) /\ ~has_predecessor(g1, dep, cls)
                    THEN add_dependencies_to_graph(dep, g1, 1)
                    ELSE g1
         IN  add_dependencies_to_graph(cls, g2, i + 1)

\* Feature.dependency_graph
dependency_graph(cls) ==
    add_dependencies_to_graph(cls, add_node(NewDiGraph, cls), 1)

\* the list comprehension of Feature.root_dependencies, in graph.nodes order
RootsOf(graph) ==
    SelectSeq(graph.nodes, LAMBDA node : predecessors(graph, node) = {})

NoCall == [op |-> "none", cls |-> "", raised |-> "", nodes |-> <<>>,
           edges |-> {}, value |-> <<>>]

Record(c) ==
    /\ call' = c
    /\ first' = IF first.op = "none" THEN call' ELSE first
    /\ again' = (first.op # "none")
    /\ UNCHANGED <<dependencies, metaVars, execVars>>

\* a caller evaluates cls.dependency_graph()
DependencyGraphCall(cls) ==
    \E graph \in {dependency_graph(cls)} :
        Record([op |-> "dependency_graph", cls |-> cls, raised |-> graph.raised,
                nodes |-> graph.nodes, edges |-> graph.edges, value |-> <<>>])

\* what assert_no_cyclic_dependencies raises once the graph is built
AcyclicityError(graph) ==
    IF graph.raised # "" THEN graph.raised
    ELSE IF ~is_directed_acyclic_graph(graph) THEN "CyclicDependencyException"
    ELSE ""

\* a caller evaluates cls.assert_no_cyclic_dependencies()
AssertNoCyclicDependenciesCall(cls) ==
    \E graph \in {dependency_graph(cls)} :
        Record([op |-> "assert_no_cyclic_dependencies", cls |-> cls,
                raised |-> AcyclicityError(graph),
                nodes |-> graph.nodes, edges |-> graph.edges, value |-> <<>>])

\* a caller evaluates cls.root_dependencies()
RootDependenciesCall(cls) ==
    \E graph \in {dependency_graph(cls)} :
        Record([op |-> "root_dependencies", cls |-> cls, raised |-> graph.raised,
                nodes |-> graph.nodes, edges |-> graph.edges,
                value |-> IF graph.raised # "" THEN <<>> ELSE RootsOf(graph)])

GraphIdle ==
    /\ call = NoCall
    /\ first = NoCall
    /\ again = FALSE
    /\ dependencies = [c \in Classes |-> NoneDeps]

-----------------------------------------------------------------------------
(* FeatureMeta: class declaration (duckdb_featurestore/feature.py)         *)

\* Python objects that can sit in a `bases` tuple or be compared with one
StrObj(s)   == <<"str", s>>
ClassObj(c) == <<"class", c>>

\* the class statements of a client module; Feature is the library's own
NewClassNames == {"F", "G"}
ClassNames    == NewClassNames \cup {"Feature"}

MethodKinds == {"absent", "function", "classmethod"}

Undeclared == [declared |-> FALSE, base |-> "", compute |-> "absent",
               compute_logic |-> "absent"]

\* class Feature(metaclass=FeatureMeta): both methods are classmethods of its body
FeatureClass == [declared |-> TRUE, base |-> "", compute |-> "classmethod",
                 compute_logic |-> "classmethod"]

\* the `bases` tuple of a class statement with at most one base
BasesOf(base) == IF base = "" THEN <<>> ELSE <<ClassObj(base)>>

\* `x in bases`: some element of the tuple is equal to x
InTuple(x, t) == \E i \in 1..Len(t) : t[i] = x

\* cls derives from Feature (Feature itself included)
RECURSIVE DerivesFromFeature(_, _)
DerivesFromFeature(reg, c) ==
    IF c = "Feature" THEN TRUE
    ELSE IF c = "" THEN FALSE
    ELSE DerivesFromFeature(reg, reg[c].base)

\* getattr(cls, '_required_class_methods', []): inherited from Feature
required_class_methods(reg, base) ==
    IF DerivesFromFeature(reg, base) THEN <<"compute">> ELSE <<>>

NamespaceHas(ns, method) == ns[method] # "absent"

\* FeatureMeta.__init__: the exception it raises, "" when it returns
FeatureMeta_init(reg, clsname, base, ns) ==
    IF ~InTuple(StrObj("Feature"), BasesOf(base)) THEN ""
    ELSE LET required == required_class_methods(reg, base)
             missing_methods ==
                 SelectSeq(required,
                           LAMBDA method : \/ ~NamespaceHas(ns, method)
                                           \/ ns[method] # "classmethod")
         IN  IF missing_methods # <<>> THEN "MissingMethodException" ELSE ""

\* a class statement `class clsname(base): <ns>` is executed
DeclareClass(clsname, base, ns) ==
    /\ ~registry[clsname].declared
    /\ base # "" => registry[base].declared
    /\ LET error == FeatureMeta_init(registry, clsname, base, ns)
       IN  /\ declOutcome' = [op |-> "class", cls |-> clsname, raised |-> error]
           /\ registry' =
                IF error # "" THEN registry
                ELSE [registry EXCEPT ![clsname] =
                        [declared |-> TRUE, base |-> base, compute |-> ns.compute,
                         compute_logic |-> ns.compute_logic]]
    /\ UNCHANGED <<graphVars, execVars>>

\* FeatureMeta.__call__: `cls(...)` always raises
InstantiateClass(clsname) ==
    /\ registry[clsname].declared
    /\ declOutcome' = [op |-> "call", cls |-> clsname, raised |-> "TypeError"]
    /\ UNCHANGED <<registry, graphVars, execVars>>

NoDecl == [op |-> "none", cls |-> "", raised |-> ""]

MetaIdle ==
    /\ registry = [c \in ClassNames |-> Undeclared]
    /\ declOutcome = NoDecl

-----------------------------------------------------------------------------
(* fs_lite: Feature dataclass, column(), compute_feature                   *)

ColumnNames == {"x", "y", "z"}

\* what the `compute` attribute of a Feature can be: None, the lambda that
\* column() builds, or a function returning a DataFrame of one or two
\* columns, or a Series
ComputeKinds == {"None", "column_lambda", "frame1", "frame2", "series"}

\* column(name): Feature(name=name, compute=lambda table: None, ...)
column(n) == [name |-> n, compute |-> "column_lambda", index_columns |-> <<>>,
              descr |-> "Identifies a given column by name.", version |-> "1.0.0"]

\* Feature(...) built directly or through @feature
UserFeatures ==
    [name : ColumnNames, compute : ComputeKinds \ {"column_lambda"},
     index_columns : {<<>>, <<"id">>}, descr : {"None"}, version : {"None"}]

Features == UserFeatures \cup { column(n) : n \in ColumnNames }

\* the cells of a column of the input table
ValuesOf(c) == <<"values", c>>

\* feature.compute(input): the type of the returned object and its columns
CallCompute(f, inp) ==
    CASE f.compute = "column_lambda" -> [type |-> "NoneType", data |-> <<>>]
      [] f.compute = "frame1" -> [type |-> "DataFrame", data |-> <<<<"computed", "0">>>>]
      [] f.compute = "frame2" ->
            [type |-> "DataFrame", data |-> <<<<"computed", "0">>, <<"computed", "1">>>>]
      [] f.compute = "series" -> [type |-> "Series", data |-> <<<<"computed", "0">>>>]

Suffix(i) == CASE i = 1 -> "_0" [] i = 2 -> "_1"

\* compute_feature(input, feature)
compute_feature(inp, f) ==
    IF Len(f.index_columns) > 0
    THEN [raised |-> "ValueError: index_columns", columns |-> <<>>, data |-> <<>>]
    ELSE IF f.compute = "None"
    THEN IF f.name \notin inp
         THEN [raised |-> "ValueError: not in input table", columns |-> <<>>,
               data |-> <<>>]
         ELSE [raised |-> "", columns |-> <<<<f.name, Suffix(1)>>>>,
               data |-> <<ValuesOf(f.name)>>]
    ELSE LET out == CallCompute(f, inp)
         IN  IF out.type # "DataFrame"
             THEN [raised |-> "ValueError: did not return a DataFrame",
                   columns |-> <<>>, data |-> <<>>]
             ELSE [raised |-> "",
                   columns |-> [i \in 1..Len(out.data) |-> <<f.name, Suffix(i)>>],
                   data |-> out.data]

NoFeature == [name |-> "", compute |-> "None", index_columns |-> <<>>,
              descr |-> "None", version |-> "None"]

NoOutput == [raised |-> "", columns |-> <<>>, data |-> <<>>]

\* a caller evaluates compute_feature(inp, f)
ComputeFeatureCall(inp, f) ==
    /\ feature' = f
    /\ input' = inp
    /\ output' = compute_feature(inp, f)
    /\ UNCHANGED <<graphVars, metaVars>>

ExecIdle ==
    /\ feature = NoFeature
    /\ input = {}
    /\ output = NoOutput

-----------------------------------------------------------------------------
(* Specifications *)

Init ==
    /\ dependencies \in [Classes -> DepValues]
    /\ call = NoCall
    /\ first = NoCall
    /\ again = FALSE
    /\ MetaIdle
    /\ ExecIdle

Next ==
    \/ \E cls \in Classes : DependencyGraphCall(cls)
    \/ \E cls \in Classes : AssertNoCyclicDependenciesCall(cls)
    \/ \E cls \in Classes : RootDependenciesCall(cls)

Spec == Init /\ [][Next]_vars

\* the library module has been imported: Feature is declared
InitMeta ==
    /\ GraphIdle
    /\ registry = [c \in ClassNames |-> IF c = "Feature" THEN FeatureClass ELSE Undeclared]
    /\ declOutcome = NoDecl
    /\ ExecIdle

NextMeta ==
    \/ \E clsname \in NewClassNames, base \in ClassNames \cup {""},
          ns \in [compute : MethodKinds, compute_logic : MethodKinds] :
            DeclareClass(clsname, base, ns)
    \/ \E clsname \in ClassNames : InstantiateClass(clsname)

SpecMeta == InitMeta /\ [][NextMeta]_vars

InitExec ==
    /\ GraphIdle
    /\ MetaIdle
    /\ ExecIdle

NextExec ==
    \E inp \in SUBSET ColumnNames, f \in Features : ComputeFeatureCall(inp, f)

SpecExec == InitExec /\ [][NextExec]_vars

-----------------------------------------------------------------------------
(* The declared dependency relation, as the claims speak of it             *)

SeqToSet(s) == { s[i] : i \in 1..Len(s) }

\* what a node declares as its dependencies (a column, or a class that
\* declares none, has no dependencies)
DeclaredDeps(n) ==
    IF n \in Classes /\ ~dependencies[n].none THEN SeqToSet(dependencies[n].list)
    ELSE {}

RECURSIVE Closure(_)
Closure(S) ==
    LET T == S \cup UNION { DeclaredDeps(n) : n \in S }
    IN  IF T = S THEN S ELSE Closure(T)

\* the nodes reachable from root through `dependencies`, root included
Reachable(root) == Closure({root})

\* n depends on itself, directly or through other descriptors
DependsOnItself(n) == n \in Closure(DeclaredDeps(n))

\* no descriptor reachable from root depends on itself
AcyclicFrom(root) == \A n \in Reachable(root) : ~DependsOnItself(n)

\* every class reachable from root declares a list of dependencies
ListsDeclaredFrom(root) ==
    \A n \in Reachable(root) : n \in Classes => ~dependencies[n].none

ReachableEdges(root) ==
    { e \in Reachable(root) \X Nodes : e[2] \in DeclaredDeps(e[1]) }

Leaves(root) == { n \in Reachable(root) : DeclaredDeps(n) = {} }

NoDuplicates(s) == \A i \in 1..Len(s) : \A j \in 1..Len(s) : s[i] = s[j] => i = j

BuildOps == {"dependency_graph", "assert_no_cyclic_dependencies", "root_dependencies"}

-----------------------------------------------------------------------------
(* Claims on the graph queries (specification Spec)                        *)

\* C1: for an acyclic declaration, dependency_graph(root) returns exactly the
\* nodes reachable from root, each once, and exactly the declared edges among
\* them (diamond: 4 nodes and 4 edges; chain A -> B -> x: 3 nodes, 2 edges).
\* Stated here for the declarations in which every reachable class declares
\* a list, so that the None default plays no part.
C1_BuildReturnsReachableGraph ==
    (/\ call.op = "dependency_graph"
     /\ AcyclicFrom(call.cls)
     /\ ListsDeclaredFrom(call.cls))
    => /\ call.raised = ""
       /\ SeqToSet(call.nodes) = Reachable(call.cls)
       /\ NoDuplicates(call.nodes)
       /\ call.edges = ReachableEdges(call.cls)

\* C2: for an acyclic declaration, root_dependencies(root) returns exactly the
\* leaves of the graph: the reachable nodes with no dependencies of their own.
\* Stated here for the declarations in which every reachable class declares
\* a list, so that the None default plays no part.
C2_RootDependenciesAreLeaves ==
    (/\ call.op = "root_dependencies"
     /\ AcyclicFrom(call.cls)
     /\ ListsDeclaredFrom(call.cls))
    => /\ call.raised = ""
       /\ SeqToSet(call.value) = Leaves(call.cls)
       /\ NoDuplicates(call.value)

\* C3: when D depends on itself, directly or through other descriptors,
\* assert_no_cyclic_dependencies(D) raises CyclicDependencyException.
C3_CycleIsReported ==
    (/\ call.op = "assert_no_cyclic_dependencies"
     /\ DependsOnItself(call.cls))
    => call.raised = "CyclicDependencyException"

\* C5: for an acyclic declaration, diamonds included,
\* assert_no_cyclic_dependencies(root) completes without raising.
C5_AcyclicNeverRaises ==
    (/\ call.op = "assert_no_cyclic_dependencies"
     /\ AcyclicFrom(call.cls))
    => call.raised = ""

\* C6: for every declaration, cyclic or not, dependency_graph(root) returns a
\* graph and raises nothing.
C6_BuildNeverRaises ==
    call.op = "dependency_graph" => call.raised = ""

\* C7: a descriptor with no dependencies (an empty list, or none declared)
\* builds the graph of the single node D with no edge, and is its own only
\* root dependency.
C7_NoDependenciesSingleNode ==
    /\ (call.op = "dependency_graph" /\ DeclaredDeps(call.cls) = {})
       => /\ call.raised = ""
          /\ call.nodes = <<call.cls>>
          /\ call.edges = {}
    /\ (call.op = "root_dependencies" /\ DeclaredDeps(call.cls) = {})
       => /\ call.raised = ""
          /\ call.value = <<call.cls>>

\* C9: two different descriptors with the same name() that root depends on
\* are two separate nodes of the graph built from root, each with its own
\* edge from root.
C9_SameNameNotMerged ==
    (call.op \in BuildOps /\ call.raised = "")
    => \A d1 \in DeclaredDeps(call.cls) \cap Classes :
         \A d2 \in DeclaredDeps(call.cls) \cap Classes :
           (d1 # d2 /\ name(d1) = name(d2))
           => /\ InSeq(call.nodes, d1)
              /\ InSeq(call.nodes, d2)
              /\ <<call.cls, d1>> \in call.edges
              /\ <<call.cls, d2>> \in call.edges
              /\ NoDuplicates(call.nodes)

\* C9 witness: a graph was built from a root that depends on mod1.B and on
\* mod2.B, both named B, and holds both.
C9_Witness ==
    /\ call.op = "dependency_graph"
    /\ call.raised = ""
    /\ {"mod1.B", "mod2.B"} \subseteq DeclaredDeps(call.cls)
    /\ name("mod1.B") = name("mod2.B")
    /\ InSeq(call.nodes, "mod1.B")
    /\ InSeq(call.nodes, "mod2.B")

\* C10: a query repeated on the same descriptor returns what the run's first
\* such query returned (same nodes, same edges, same root dependencies in the
\* same order), and no query changes any descriptor's dependencies.
C10_QueriesDeterministic ==
    /\ []((call.op = first.op /\ call.cls = first.cls) => call = first)
    /\ [][dependencies' = dependencies]_vars

\* C10 witness: root_dependencies was asked again, after other queries, for a
\* descriptor with dependencies, and answered as the first time.
C10_Witness ==
    /\ again
    /\ call.op = "root_dependencies"
    /\ first.op = call.op
    /\ first.cls = call.cls
    /\ call.raised = ""
    /\ Len(call.nodes) > 2
    /\ call.value = first.value

-----------------------------------------------------------------------------
(* Claim on class declaration (specification SpecMeta)                     *)

\* the class, or a base of it below Feature, defines compute_logic
RECURSIVE HasComputeLogic(_, _)
HasComputeLogic(reg, c) ==
    IF c \in {"", "Feature"} THEN FALSE
    ELSE reg[c].compute_logic # "absent" \/ HasComputeLogic(reg, reg[c].base)

\* C4: a concrete feature declared without compute logic is rejected at
\* declaration, so no declared feature class lacks compute logic.
C4_NoFeatureWithoutComputeLogic ==
    \A c \in NewClassNames :
        (registry[c].declared /\ DerivesFromFeature(registry, c))
        => HasComputeLogic(registry, c)

-----------------------------------------------------------------------------
(* Claim on the executor (specification SpecExec)                          *)

\* C8: computing a column-reference feature column(n) reads column n of the
\* input: it succeeds with that column's values when the column is present
\* and fails only when it is absent.
C8_ColumnFeatureIsLookup ==
    feature = column(feature.name)
    => IF feature.name \in input
       THEN output.raised = "" /\ output.data = <<ValuesOf(feature.name)>>
       ELSE output.raised # ""

====
